---- MODULE Spec2Model ----
(***************************************************************************)
(* A model of excel_filter.py: the column normaliser, the row filter, the  *)
(* workbook writer and the Streamlit script that drives them.              *)
(*                                                                         *)
(* Text is a sequence of one-character strings.  A missing cell (pandas    *)
(* NaN) is the one-element sequence NaN, so every cell is a sequence.      *)
(*                                                                         *)
(* Three specifications share the module:                                  *)
(*   Spec      one browser session going through the script;              *)
(*   SpecNorm  clean_column_names applied to pairs of header strings;      *)
(*   SpecRace  two sessions of the same server process running the        *)
(*             filter-and-download part of the script concurrently.        *)
(***************************************************************************)
EXTENDS Integers, Sequences, FiniteSets, TLC

VARIABLES
    \* ---- Spec: one session of the script (lines 79-132)
    book,             \* the uploaded workbook: sheet name -> raw rows
    na_mode,          \* how the installed pandas casts NaN in astype(str)
    selected_sheets,  \* st.multiselect("Select sheets to filter")
    all_columns,      \* the set built at lines 95-99
    filter_value,     \* st.text_input("Enter the filter value")
    selected_columns, \* st.multiselect("Select columns to filter")
    filtered_data,    \* the dict returned by filter_sheets, in insertion order
    disk_file,        \* the file 'filtered_data.xlsx' in the working directory
    download,         \* the bytes handed to st.download_button
    raised,           \* the exception that ended the script run, or "none"
    pc,               \* how far the script got in its last run
    \* ---- SpecNorm
    hdr1, hdr2,       \* two raw header strings
    key1, key2,       \* their column keys
    key11,            \* the key of key1
    npc,
    \* ---- SpecRace
    sess              \* session -> its request, position and download

vars == <<book, na_mode, selected_sheets, all_columns, filter_value,
          selected_columns, filtered_data, disk_file, download, raised, pc,
          hdr1, hdr2, key1, key2, key11, npc, sess>>

flow_vars == <<book, na_mode, selected_sheets, all_columns, filter_value,
               selected_columns, filtered_data, download, raised, pc>>

norm_vars == <<hdr1, hdr2, key1, key2, key11, npc>>

-----------------------------------------------------------------------------
(* Bounds *)

\* data rows in the whole workbook
MaxRows == 2
\* characters in a filter value
MaxNeedleLen == 2
\* characters in a raw header string (SpecNorm)
MaxHeaderLen == 4
\* script runs per session (SpecRace)
MaxRuns == 2

-----------------------------------------------------------------------------
(* Sequences and text *)

Range(s) == {s[i] : i \in DOMAIN s}

SeqsUpTo(S, n) == UNION {[1..k -> S] : k \in 0..n}

\* Python's str.isspace for the characters used here
IsSpace(c) == c \in {" ", "\t"}

\* Python's str.lower, one character
Lower(c) ==
    CASE c = "A" -> "a"
      [] c = "N" -> "n"
      [] OTHER -> c

RECURSIVE LStrip(_)
LStrip(s) ==
    IF s = <<>> THEN s
    ELSE IF IsSpace(Head(s)) THEN LStrip(Tail(s)) ELSE s

RECURSIVE RStrip(_)
RStrip(s) ==
    IF s = <<>> THEN s
    ELSE IF IsSpace(s[Len(s)]) THEN RStrip(SubSeq(s, 1, Len(s) - 1)) ELSE s

\* Series.str.strip(): leading and trailing whitespace removed
str_strip(s) == RStrip(LStrip(s))

\* Series.str.lower()
str_lower(s) == [i \in DOMAIN s |-> Lower(s[i])]

\* Series.str.replace(old, new) for one-character old and new
str_replace(s, old, new) == [i \in DOMAIN s |-> IF s[i] = old THEN new ELSE s[i]]

-----------------------------------------------------------------------------
(* Column normaliser *)

\* A plausible slip: the arguments of replace exchanged.
NormalizeSwapped(h) == str_replace(str_lower(str_strip(h)), "_", " ")

\* A plausible slip: the lower-casing left out.
NormalizeNoLower(h) == str_replace(str_strip(h), " ", "_")

\* line 16, for one header: strip, then lower, then ' ' -> '_'
Normalize(h) == str_replace(str_lower(str_strip(h)), " ", "_")

\* clean_column_names: every column label of the frame normalised
clean_column_names(df) ==
    [df EXCEPT !.columns = [i \in DOMAIN df.columns |-> Normalize(df.columns[i])]]

-----------------------------------------------------------------------------
(* Frames and the workbook reader *)

\* pandas' missing value
NaN == <<"NaN">>

\* ExcelFile.parse(sheet, header=1): the first row is dropped, the second
\* row gives the column labels, the rest are the data rows; a sheet with
\* no cells gives the frame without columns.
xls_parse(xls, sheet) ==
    LET raw == xls[sheet]
    IN IF Len(raw) < 2
       THEN [columns |-> <<>>, rows |-> <<>>]
       ELSE [columns |-> raw[2], rows |-> SubSeq(raw, 3, Len(raw))]

\* load_excel: the sheet names, in workbook order
sheet_names == <<"Zoo", "Farm">>

-----------------------------------------------------------------------------
(* Row filter *)

\* Series.astype(str) on one cell: text is kept; NaN becomes the text
\* 'nan' (pandas 1.x, 2.x) or stays missing (pandas with the str dtype).
astype_str(cell, mode) ==
    IF cell = NaN
    THEN IF mode = "nan_text" THEN <<"n", "a", "n">> ELSE NaN
    ELSE cell

\* re.compile(pat): over this alphabet the only malformed patterns are
\* those with an opening parenthesis, which nothing can close.
re_compile_ok(pat) == "(" \notin Range(pat)

\* the alternatives of a pattern a1|a2|...
RECURSIVE re_alternatives(_)
re_alternatives(pat) ==
    IF "|" \notin Range(pat) THEN {pat}
    ELSE LET i == CHOOSE k \in DOMAIN pat :
                    pat[k] = "|" /\ \A j \in 1..(k - 1) : pat[j] # "|"
         IN {SubSeq(pat, 1, i - 1)} \cup re_alternatives(SubSeq(pat, i + 1, Len(pat)))

\* text t holds a as a contiguous run
IsSubstr(a, t) ==
    \E i \in 1..(Len(t) - Len(a) + 1) : SubSeq(t, i, i + Len(a) - 1) = a

\* re.search(pat, text, re.IGNORECASE) is not None
re_search_ignorecase(pat, text) ==
    \E alt \in re_alternatives(pat) : IsSubstr(str_lower(alt), str_lower(text))

\* Series.str.contains(pat, case=False, na=False) on one cell; the
\* pattern is a regular expression (regex=True is the default)
str_contains(cell, pat) ==
    IF cell = NaN THEN FALSE ELSE re_search_ignorecase(pat, cell)

\* line 28
valid_columns_of(df, columns) == {col \in columns : col \in Range(df.columns)}

\* the lambda of line 32 on one row of df[valid_columns]
row_matches(df, row, valid_columns, needle, mode) ==
    \E i \in DOMAIN df.columns :
        /\ df.columns[i] \in valid_columns
        /\ str_contains(astype_str(row[i], mode), needle)

\* A plausible slip: the guard of line 30 left out, so that a sheet
\* without any of the columns is kept with no rows.
filter_one_unguarded(df0, needle, columns, mode) ==
    LET df == clean_column_names(df0)
        valid_columns == valid_columns_of(df, columns)
        Keep(row) == row_matches(df, row, valid_columns, needle, mode)
    IN IF Len(df.rows) > 0 /\ valid_columns # {} /\ ~re_compile_ok(needle)
       THEN [kind |-> "raise", df |-> df]
       ELSE [kind |-> "entry", df |-> [df EXCEPT !.rows = SelectSeq(df.rows, Keep)]]

\* lines 25-33, the body of the loop for one parsed sheet: "skip" when
\* none of the columns is in the sheet, "raise" when the pattern does not
\* compile (DataFrame.apply swallows the exception on a frame without
\* rows), else the entry stored in filtered_data.
filter_one(df0, needle, columns, mode) ==
    LET df == clean_column_names(df0)
        valid_columns == valid_columns_of(df, columns)
        Keep(row) == row_matches(df, row, valid_columns, needle, mode)
    IN IF valid_columns = {}
       THEN [kind |-> "skip", df |-> df]
       ELSE IF Len(df.rows) > 0 /\ ~re_compile_ok(needle)
       THEN [kind |-> "raise", df |-> df]
       ELSE [kind |-> "entry", df |-> [df EXCEPT !.rows = SelectSeq(df.rows, Keep)]]

RECURSIVE filter_loop(_, _, _, _, _, _, _)
filter_loop(xls, sheets, needle, columns, mode, i, acc) ==
    IF i > Len(sheets) THEN [raised |-> "none", data |-> acc]
    ELSE LET one == filter_one(xls_parse(xls, sheets[i]), needle, columns, mode)
         IN CASE one.kind = "skip" ->
                    filter_loop(xls, sheets, needle, columns, mode, i + 1, acc)
              [] one.kind = "raise" ->
                    [raised |-> "re.error", data |-> <<>>]
              [] OTHER ->
                    filter_loop(xls, sheets, needle, columns, mode, i + 1,
                                Append(acc, [sheet |-> sheets[i], df |-> one.df]))

\* filter_sheets: the dict filtered_data as the sequence of its items
filter_sheets(xls, sheets, needle, columns, mode) ==
    filter_loop(xls, sheets, needle, columns, mode, 1, <<>>)

-----------------------------------------------------------------------------
(* Workbook writer *)

\* dataframe_to_rows(df, index=False, header=True)
dataframe_to_rows(df) == <<df.columns>> \o df.rows

\* workbook.create_sheet(name) followed by sheet.append(row) for each row
create_sheet(name, rows) ==
    [title |-> name, cells |-> rows, border |-> {}, bold |-> {}]

\* the cells that hold an appended value
populated(sheet) ==
    IF sheet.cells = <<>> THEN {}
    ELSE {<<r, c>> : r \in 1..Len(sheet.cells), c \in 1..Len(sheet.cells[1])}

\* the cells sheet.iter_rows() walks: the populated rectangle, or the one
\* cell A1 of a sheet that holds nothing
iter_rows(sheet) ==
    IF populated(sheet) = {} THEN {<<1, 1>>} ELSE populated(sheet)

\* A plausible slip: the borders start below the header row.
apply_borders_skip_header(sheet) ==
    [sheet EXCEPT !.border = {rc \in iter_rows(sheet) : rc[1] > 1}]

\* apply_borders
apply_borders(sheet) == [sheet EXCEPT !.border = iter_rows(sheet)]

\* apply_bold_header: the cells of row 1
apply_bold_header(sheet) ==
    [sheet EXCEPT !.bold = @ \cup {rc \in iter_rows(sheet) : rc[1] = 1}]

\* A plausible slip: the header row is not written.
write_filtered_sheet_no_header(entry) ==
    apply_bold_header(apply_borders(create_sheet(entry.sheet, entry.df.rows)))

\* lines 59-63
write_filtered_sheet(entry) ==
    apply_bold_header(apply_borders(
        create_sheet(entry.sheet, dataframe_to_rows(entry.df))))

\* lines 69-75
write_unselected_sheet(xls, name) ==
    apply_borders(create_sheet(name, dataframe_to_rows(xls_parse(xls, name))))

\* the workbook save_filtered_data builds (pandas starts it without any
\* sheet): one sheet per item of filtered_data, then one per sheet of
\* the source that is not in selected_sheets
save_filtered_data(xls, sheets, data) ==
    [i \in DOMAIN data |-> write_filtered_sheet(data[i])]
    \o [i \in DOMAIN SelectSeq(sheet_names, LAMBDA n : n \notin Range(sheets)) |->
            write_unselected_sheet(xls,
                SelectSeq(sheet_names, LAMBDA n : n \notin Range(sheets))[i])]

\* the file system's view of 'filtered_data.xlsx'
NoFile == [state |-> "absent", sheets |-> <<>>]
\* line 54: ExcelWriter opens the path for writing, which empties it
TruncatedFile == [state |-> "truncated", sheets |-> <<>>]
\* the end of the with block: the workbook is written to the path
WrittenFile(wb) == [state |-> "written", sheets |-> wb]

-----------------------------------------------------------------------------
(* The inputs the sessions draw from *)

Cells == {NaN, <<"a", "A">>, <<"N">>}

\* the banner row above the header row
TitleRow == << <<"T">> >>

ZooHeader == << <<" ", "A">>, <<"n", " ", "a">> >>
FarmHeader == << <<"N">> >>

ZooRows ==
    { << <<"a", "A">>, NaN >>, << <<"N">>, <<"a", "A">> >>,
      << NaN, NaN >>, << <<"N">>, <<"N">> >> }
FarmRows == {<<c>> : c \in Cells}

RawSheet(header, rows) == <<TitleRow, header>> \o rows

\* Zoo has two columns; Farm has one column or no cell at all
Books ==
    {[n \in Range(sheet_names) |-> IF n = "Zoo" THEN z ELSE f] :
        z \in {RawSheet(ZooHeader, r) : r \in SeqsUpTo(ZooRows, MaxRows)},
        f \in {<<>>} \cup {RawSheet(FarmHeader, r) : r \in SeqsUpTo(FarmRows, MaxRows)}}

DataRows(raw) == IF Len(raw) < 2 THEN 0 ELSE Len(raw) - 2

NeedleChars == {"A", "|", "("}
Needles == SeqsUpTo(NeedleChars, MaxNeedleLen)

\* the value the text input starts with (line 106, "Elephant"): a plain
\* word, here the one-letter word of the needle alphabet
DefaultFilterValue == <<"A">>

\* the selections a multiselect over the sheet names can return
SheetSelections ==
    {s \in SeqsUpTo(Range(sheet_names), Len(sheet_names)) :
        s # <<>> /\ \A i, j \in DOMAIN s : i # j => s[i] # s[j]}

NoDownload == [state |-> "none", sheets |-> <<>>]

IdleNorm ==
    /\ hdr1 = <<>> /\ hdr2 = <<>> /\ key1 = <<>> /\ key2 = <<>> /\ key11 = <<>>
    /\ npc = "idle"

IdleFlow ==
    /\ book = [n \in Range(sheet_names) |-> <<>>]
    /\ na_mode = "nan_text"
    /\ selected_sheets = <<>> /\ all_columns = {}
    /\ filter_value = <<>> /\ selected_columns = {}
    /\ filtered_data = <<>> /\ download = NoDownload
    /\ raised = "none" /\ pc = "idle"

-----------------------------------------------------------------------------
(* Spec: one session of the script *)

\* a file is uploaded and the script has run to line 91 with nothing
\* selected; 'filtered_data.xlsx' does not exist yet
Init ==
    /\ book \in {b \in Books : DataRows(b["Zoo"]) + DataRows(b["Farm"]) <= MaxRows}
    /\ na_mode \in {"nan_text", "na_false"}
    /\ selected_sheets = <<>>
    /\ all_columns = {}
    /\ filter_value = DefaultFilterValue
    /\ selected_columns = {}
    /\ filtered_data = <<>>
    /\ disk_file = NoFile
    /\ download = NoDownload
    /\ raised = "none"
    /\ pc = "uploaded"
    /\ IdleNorm
    /\ sess = <<>>

\* lines 95-99: the column keys of the selected sheets
gather_columns(xls, sheets) ==
    UNION {Range(clean_column_names(xls_parse(xls, sheets[i])).columns) :
              i \in DOMAIN sheets}

HasNoColumns(xls, sheets) ==
    \E i \in DOMAIN sheets : xls_parse(xls, sheets[i]).columns = <<>>

\* The user picks sheets; the script reruns to line 110.
SelectSheets ==
    /\ pc = "uploaded"
    /\ \E s \in SheetSelections :
        /\ selected_sheets' = s
        /\ all_columns' = gather_columns(book, s)
    /\ pc' = "sheets"
    /\ UNCHANGED <<book, na_mode, filter_value, selected_columns, filtered_data,
                   disk_file, download, raised>>
    /\ UNCHANGED <<norm_vars, sess>>

\* The same, where the installed pandas gives the frame of an empty sheet
\* integer column labels: line 16 (called at line 98) raises on .str.
SelectSheetsRaises ==
    /\ pc = "uploaded"
    /\ \E s \in SheetSelections :
        /\ HasNoColumns(book, s)
        /\ selected_sheets' = s
    /\ raised' = "AttributeError"
    /\ pc' = "raised"
    /\ UNCHANGED <<book, na_mode, all_columns, filter_value, selected_columns,
                   filtered_data, disk_file, download>>
    /\ UNCHANGED <<norm_vars, sess>>

\* The user types a filter value; an empty one stops the script at line 108.
EnterFilterValue ==
    /\ pc = "sheets"
    /\ \E v \in Needles : filter_value' = v
    /\ pc' = "value"
    /\ UNCHANGED <<book, na_mode, selected_sheets, all_columns, selected_columns,
                   filtered_data, disk_file, download, raised>>
    /\ UNCHANGED <<norm_vars, sess>>

\* The user picks columns; the script reruns through lines 112-132:
\* filter, then either save, reopen and offer the file, or the message.
SelectColumns ==
    /\ pc \in {"sheets", "value"}
    /\ filter_value # <<>>
    /\ \E cols \in (SUBSET all_columns) \ {{}} :
        LET res == filter_sheets(book, selected_sheets, filter_value, cols, na_mode)
            wb == save_filtered_data(book, selected_sheets, res.data)
        IN /\ selected_columns' = cols
           /\ raised' = res.raised
           /\ filtered_data' = res.data
           /\ IF res.raised # "none"
              THEN /\ pc' = "raised"
                   /\ UNCHANGED <<disk_file, download>>
              ELSE IF res.data # <<>>
              THEN /\ disk_file' = WrittenFile(wb)
                   /\ download' = disk_file'
                   /\ pc' = "offered"
              ELSE /\ pc' = "nomatch"
                   /\ UNCHANGED <<disk_file, download>>
    /\ UNCHANGED <<book, na_mode, selected_sheets, all_columns, filter_value>>
    /\ UNCHANGED <<norm_vars, sess>>

Next ==
    \/ SelectSheets
    \/ SelectSheetsRaises
    \/ EnterFilterValue
    \/ SelectColumns

Spec == Init /\ [][Next]_vars

-----------------------------------------------------------------------------
(* Properties of one session *)

\* filter_sheets has returned in the last run
Filtered == pc \in {"offered", "nomatch"}

CleanFrame(n) == clean_column_names(xls_parse(book, n))

TargetColumns(n) == selected_columns \cap Range(CleanFrame(n).columns)

HasEntry(n) == \E i \in DOMAIN filtered_data : filtered_data[i].sheet = n

EntryOf(n) == filtered_data[CHOOSE i \in DOMAIN filtered_data : filtered_data[i].sheet = n]

\* the cell as text, a missing cell as the empty text
TextOrEmpty(cell) == IF cell = NaN THEN <<>> ELSE cell

\* needle is a literal, case-insensitive part of text
LiteralContains(text, needle) == IsSubstr(str_lower(needle), str_lower(text))

\* the rows of sheet n the claimed filter keeps
LiteralFilter(n) ==
    LET df == CleanFrame(n)
        Keep(row) == \E c \in DOMAIN df.columns :
                        /\ df.columns[c] \in selected_columns
                        /\ LiteralContains(TextOrEmpty(row[c]), filter_value)
    IN SelectSeq(df.rows, Keep)

\* C1: for every selected sheet that has a target column, the result
\* holds exactly the rows, in order and with all columns, in which a target
\* cell (missing read as empty text) contains the needle as a
\* case-insensitive literal.
C1_FilterIsLiteralSubstringMatch ==
    Filtered =>
        \A i \in DOMAIN selected_sheets :
            LET n == selected_sheets[i]
            IN TargetColumns(n) # {} =>
                /\ HasEntry(n)
                /\ EntryOf(n).df.columns = CleanFrame(n).columns
                /\ EntryOf(n).df.rows = LiteralFilter(n)

SheetsTitled(wb, n) == {i \in DOMAIN wb : wb[i].title = n}

\* C3: after save_filtered_data every sheet name of the source workbook,
\* selected or not, appears exactly once in the output workbook.
C3_EverySheetAppearsOnce ==
    pc = "offered" =>
        \A n \in Range(sheet_names) :
            Cardinality(SheetsTitled(disk_file.sheets, n)) = 1

HeaderCells(sheet) == {rc \in populated(sheet) : rc[1] = 1}

\* C5 as stated: in every output sheet the header row is bold and every
\* populated cell has a border.
C5_EveryHeaderBoldEveryCellBordered ==
    pc = "offered" =>
        \A i \in DOMAIN download.sheets :
            /\ populated(download.sheets[i]) \subseteq download.sheets[i].border
            /\ HeaderCells(download.sheets[i]) \subseteq download.sheets[i].bold

\* C5 (amended): every populated cell of every output sheet has a border;
\* the header row is bold in the sheets written from filtered_data, and
\* no cell is bold in the sheets passed through unfiltered.
C5_BordersEverywhereBoldOnFilteredSheets ==
    pc = "offered" =>
        \A i \in DOMAIN download.sheets :
            /\ populated(download.sheets[i]) \subseteq download.sheets[i].border
            /\ i <= Len(filtered_data) =>
                 HeaderCells(download.sheets[i]) \subseteq download.sheets[i].bold
            /\ i > Len(filtered_data) => download.sheets[i].bold = {}

\* C5's case: a workbook with a filtered sheet that kept rows and an
\* unfiltered sheet that has cells
C5_Witness ==
    /\ pc = "offered"
    /\ \E i, j \in DOMAIN download.sheets :
        /\ i <= Len(filtered_data) /\ Len(download.sheets[i].cells) > 1
        /\ j > Len(filtered_data) /\ populated(download.sheets[j]) # {}

NoRowMatches ==
    \A i \in DOMAIN selected_sheets :
        LET df == CleanFrame(selected_sheets[i])
        IN \A k \in DOMAIN df.rows :
            ~row_matches(df, df.rows[k], TargetColumns(selected_sheets[i]),
                         filter_value, na_mode)

\* C6: when no row of any selected sheet matches, filter_sheets returns
\* an empty result and the script takes the no-match branch.
C6_NoMatchTakesNoMatchBranch ==
    (Filtered /\ NoRowMatches) => (filtered_data = <<>> /\ pc = "nomatch")

\* C9 as stated: a sheet written for a selected sheet holds the filtered
\* rows and one subtotal row below the header.
C9_FilteredSheetHasSubtotalRow ==
    pc = "offered" =>
        \A i \in DOMAIN filtered_data :
            Len(download.sheets[i].cells) - 1 = Len(filtered_data[i].df.rows) + 1

\* C9 (amended): a sheet written for an entry of filtered_data is the
\* header row, then every filtered row in order, and nothing else: it holds
\* exactly len(filtered_rows) rows below the header.
C9_FilteredSheetIsHeaderThenRows ==
    pc = "offered" =>
        \A i \in DOMAIN filtered_data :
            /\ download.sheets[i].title = filtered_data[i].sheet
            /\ download.sheets[i].cells # <<>>
            /\ download.sheets[i].cells[1] = filtered_data[i].df.columns
            /\ Tail(download.sheets[i].cells) = filtered_data[i].df.rows
            /\ Len(download.sheets[i].cells) - 1 = Len(filtered_data[i].df.rows)

\* C9's case: a written sheet that kept two rows
C9_Witness ==
    /\ pc = "offered"
    /\ \E i \in DOMAIN filtered_data : Len(filtered_data[i].df.rows) >= 2

SubNeedles(needle) ==
    {SubSeq(needle, a, b) : a \in 1..(Len(needle) + 1), b \in 0..Len(needle)}

Retained(n, needle) ==
    LET df == CleanFrame(n)
    IN {k \in DOMAIN df.rows :
            row_matches(df, df.rows[k], TargetColumns(n), needle, na_mode)}

\* C10: every row kept under the needle is kept under each contiguous part
\* of the needle, and the empty needle keeps every row of a sheet that has
\* a target column (the second part stated where NaN is cast to text).
C10_SubNeedleRetainsSuperset ==
    Filtered =>
        \A i \in DOMAIN selected_sheets :
            LET n == selected_sheets[i]
            IN TargetColumns(n) # {} =>
                /\ \A n1 \in SubNeedles(filter_value) :
                      Retained(n, filter_value) \subseteq Retained(n, n1)
                /\ na_mode = "nan_text" =>
                      Retained(n, <<>>) = DOMAIN CleanFrame(n).rows

-----------------------------------------------------------------------------
(* SpecNorm: clean_column_names on two headers *)

HeaderChars == {"a", "A", " ", "_", "\t"}
Headers == SeqsUpTo(HeaderChars, MaxHeaderLen)

\* the headers differ only in the case of their letters
DifferByCase(h1, h2) ==
    /\ Len(h1) = Len(h2)
    /\ \A i \in DOMAIN h1 : Lower(h1[i]) = Lower(h2[i])

\* cutting h to positions a..b drops only whitespace
OuterCut(h, a, b) == \A i \in DOMAIN h : (i < a \/ i > b) => IsSpace(h[i])

\* the headers differ only in whitespace at their ends
DifferByOuterSpace(h1, h2) ==
    \E a \in 1..(Len(h1) + 1), b \in 0..Len(h1) :
        /\ OuterCut(h1, a, b)
        /\ \E c \in 1..(Len(h2) + 1), d \in 0..Len(h2) :
            /\ d - c = b - a
            /\ OuterCut(h2, c, d)
            /\ SubSeq(h1, a, b) = SubSeq(h2, c, d)

\* the headers differ only where one has a space and the other an underscore
DifferBySpaceStyle(h1, h2) ==
    /\ Len(h1) = Len(h2)
    /\ \A i \in DOMAIN h1 : h1[i] = h2[i] \/ {h1[i], h2[i]} = {" ", "_"}

\* position i of h lies strictly between two characters that are not
\* whitespace
Inside(h, i) ==
    /\ \E j \in 1..(i - 1) : ~IsSpace(h[j])
    /\ \E j \in (i + 1)..Len(h) : ~IsSpace(h[j])

\* the same, where every such space lies inside its header
DifferByInnerSpaceStyle(h1, h2) ==
    /\ DifferBySpaceStyle(h1, h2)
    /\ \A i \in DOMAIN h1 :
        /\ (h1[i] = " " /\ h2[i] = "_") => Inside(h1, i)
        /\ (h2[i] = " " /\ h1[i] = "_") => Inside(h2, i)

Spaces == {c \in HeaderChars : IsSpace(c)}

\* the headers that differ from h in one of the three ways
Variants(h) ==
    {g \in [DOMAIN h -> HeaderChars] : DifferByCase(h, g) \/ DifferBySpaceStyle(h, g)}
    \cup UNION {
           {p \o SubSeq(h, ab[1], ab[2]) \o q :
               p \in SeqsUpTo(Spaces, MaxHeaderLen - (ab[2] - ab[1] + 1)),
               q \in SeqsUpTo(Spaces, MaxHeaderLen - (ab[2] - ab[1] + 1))}
           : ab \in {x \in (1..(Len(h) + 1)) \X (0..Len(h)) :
                        x[2] >= x[1] - 1 /\ OuterCut(h, x[1], x[2])} }

InitNorm ==
    /\ hdr1 \in Headers
    /\ hdr2 \in {g \in Variants(hdr1) : Len(g) <= MaxHeaderLen}
    /\ key1 = <<>> /\ key2 = <<>> /\ key11 = <<>>
    /\ npc = "raw"
    /\ IdleFlow
    /\ disk_file = NoFile
    /\ sess = <<>>

\* clean_column_names on a frame whose columns are the two headers
CleanHeaders ==
    /\ npc = "raw"
    /\ LET df == clean_column_names([columns |-> <<hdr1, hdr2>>, rows |-> <<>>])
       IN key1' = df.columns[1] /\ key2' = df.columns[2]
    /\ npc' = "clean"
    /\ UNCHANGED <<hdr1, hdr2, key11, flow_vars, disk_file, sess>>

\* clean_column_names on the cleaned frame
CleanAgain ==
    /\ npc = "clean"
    /\ key11' = clean_column_names([columns |-> <<key1>>, rows |-> <<>>]).columns[1]
    /\ npc' = "again"
    /\ UNCHANGED <<hdr1, hdr2, key1, key2, flow_vars, disk_file, sess>>

NextNorm ==
    \/ CleanHeaders
    \/ CleanAgain

SpecNorm == InitNorm /\ [][NextNorm]_vars

\* C7 as stated: two headers that differ only by case, by whitespace at
\* the ends, or by space against underscore get the same key.
C7_VariantsShareKey ==
    npc # "raw" => key1 = key2

\* C7 (amended): the same, where a space standing for an underscore lies
\* strictly between the first and the last non-whitespace character of its
\* header.
C7_InnerVariantsShareKey ==
    (/\ npc # "raw"
     /\ \/ DifferByCase(hdr1, hdr2)
        \/ DifferByOuterSpace(hdr1, hdr2)
        \/ DifferByInnerSpaceStyle(hdr1, hdr2))
    => key1 = key2

\* C7's cases: cleaned pairs of different headers, one of each kind
C7_Witness ==
    /\ npc = "clean"
    /\ hdr1 # hdr2
    /\ DifferByInnerSpaceStyle(hdr1, hdr2)
    /\ ~DifferByCase(hdr1, hdr2)
    /\ ~DifferByOuterSpace(hdr1, hdr2)

\* C8: normalising a key gives the key again.
C8_NormalizeIdempotent ==
    npc = "again" => key11 = key1

\* C8's case: a header the normaliser changed by all three steps, cleaned
\* twice
C8_Witness ==
    /\ npc = "again"
    /\ str_strip(hdr1) # hdr1
    /\ str_lower(hdr1) # hdr1
    /\ " " \in Range(str_strip(hdr1))

-----------------------------------------------------------------------------
(* SpecRace: two sessions of one server process *)

Sessions == {1, 2}

RaceBook ==
    [n \in Range(sheet_names) |->
        IF n = "Zoo"
        THEN RawSheet(ZooHeader, << << <<"a", "A">>, NaN >>, << <<"N">>, <<"N">> >> >>)
        ELSE RawSheet(FarmHeader, << << <<"N">> >> >>)]

\* what a session has uploaded and entered when its run reaches line 114
RaceRequests ==
    { [xls |-> RaceBook, sheets |-> <<"Zoo">>, value |-> <<"A">>, columns |-> {<<"a">>}],
      [xls |-> RaceBook, sheets |-> <<"Zoo">>, value |-> <<"N">>, columns |-> {<<"a">>}],
      [xls |-> RaceBook, sheets |-> <<"Farm">>, value |-> <<"N">>, columns |-> {<<"n">>}] }

InitRace ==
    /\ sess = [s \in Sessions |->
                 [pc |-> "idle", req |-> CHOOSE r \in RaceRequests : TRUE,
                  data |-> <<>>, download |-> NoDownload, runs |-> 0]]
    /\ disk_file = NoFile
    /\ IdleFlow
    /\ IdleNorm

\* lines 114-120: the session's run filters its own workbook
RaceFilter(s) ==
    /\ sess[s].pc = "idle"
    /\ sess[s].runs < MaxRuns
    /\ \E r \in RaceRequests :
        sess' = [sess EXCEPT ![s].req = r,
                             ![s].data = filter_sheets(r.xls, r.sheets, r.value,
                                                       r.columns, "nan_text").data,
                             ![s].runs = @ + 1,
                             ![s].pc = "filtered"]
    /\ UNCHANGED <<disk_file, flow_vars, norm_vars>>

\* line 54: the writer opens 'filtered_data.xlsx' for writing
RaceOpenWriter(s) ==
    /\ sess[s].pc = "filtered"
    /\ sess[s].data # <<>>
    /\ disk_file' = TruncatedFile
    /\ sess' = [sess EXCEPT ![s].pc = "writing"]
    /\ UNCHANGED <<flow_vars, norm_vars>>

\* lines 55-75 and the end of the with block: the workbook is saved
RaceCloseWriter(s) ==
    /\ sess[s].pc = "writing"
    /\ disk_file' = WrittenFile(save_filtered_data(sess[s].req.xls, sess[s].req.sheets,
                                                   sess[s].data))
    /\ sess' = [sess EXCEPT ![s].pc = "saved"]
    /\ UNCHANGED <<flow_vars, norm_vars>>

\* lines 124-130: the file is opened again and read for the download
RaceOffer(s) ==
    /\ sess[s].pc = "saved"
    /\ sess' = [sess EXCEPT ![s].download = disk_file, ![s].pc = "offered"]
    /\ UNCHANGED <<disk_file, flow_vars, norm_vars>>

\* a widget changes and the script runs again
RaceRerun(s) ==
    /\ sess[s].pc = "offered"
    /\ sess' = [sess EXCEPT ![s].pc = "idle"]
    /\ UNCHANGED <<disk_file, flow_vars, norm_vars>>

NextRace ==
    \E s \in Sessions :
        \/ RaceFilter(s)
        \/ RaceOpenWriter(s)
        \/ RaceCloseWriter(s)
        \/ RaceOffer(s)
        \/ RaceRerun(s)

SpecRace == InitRace /\ [][NextRace]_vars

\* C2: under every interleaving of two filter-and-download runs, the
\* bytes offered to a session are the workbook built from that session's
\* own filtered data.
C2_DownloadIsOwnWorkbook ==
    \A s \in Sessions :
        sess[s].pc = "offered" =>
            sess[s].download =
                WrittenFile(save_filtered_data(sess[s].req.xls, sess[s].req.sheets,
                                               sess[s].data))

====
